---- MODULE Spec2Model ----
(***************************************************************************)
(* Model of src/main.py: the random mouse mover.  main() resolves the     *)
(* command line against the module defaults, validates it and enters      *)
(* run_loop(); run_loop() repeats cycles of moves, key presses and         *)
(* interruptible sleeps until the module-level flag _running is cleared    *)
(* by the signal handler.                                                  *)
(*                                                                         *)
(* Units.  Durations are integers in milliseconds.  args.minutes is kept   *)
(* in units of 1/1200 minute (MinuteUnitMs milliseconds), so that base     *)
(* intervals below the 0.1 s floor are representable.  Jitter is kept in   *)
(* percent.  An absent command line option (Python None) is the empty      *)
(* tuple, a given one is a one-element tuple.                              *)
(*                                                                         *)
(* Observation.  trace is the sequence of observable events (actuator      *)
(* calls and log lines) since the start of the current cycle; no guard     *)
(* reads it.  Each event is a pair of its kind and of the move index (or   *)
(* the computed wait) it carries.                                          *)
(***************************************************************************)
EXTENDS Integers, Sequences, FiniteSets

VARIABLES
    args,           \* argparse Namespace returned by parse_cli_and_override_defaults
    pc,             \* position of the single thread of control
    _running,       \* module-level shutdown flag
    exit_status,    \* -1 while the process lives, else the exit status
    moves_count,    \* run_loop local
    i,              \* run_loop local: index of the for loop
    x, y,           \* run_loop locals: last target position
    elapsed,        \* time.time() - start_t (resp. start) of the sleep under way
    wait_seconds,   \* run_loop local, in milliseconds
    trace           \* events of the current cycle

vars == <<args, pc, _running, exit_status, moves_count, i, x, y,
          elapsed, wait_seconds, trace>>

----------------------------------------------------------------------------
(* Bounds of the model *)

MaxMoves == 2
MaxDelayTicks == 2
MaxMinutes == 4

\* bounds of the inputs of the functions called on their own
MaxCount == 4
MaxBase == 6
MaxScreen == 13

----------------------------------------------------------------------------
(* Program constants *)

\* milliseconds in one unit of args.minutes: "base_min * 60.0" seconds
MinuteUnitMs == 50
UnitsPerMinute == 60000 \div MinuteUnitMs

\* 3 minutes
INTERVAL_MIN == 3 * UnitsPerMinute
\* 0.15, in percent
JITTER == 15
MOVES_MIN == 1
MOVES_MAX == 2
\* 1 second
PER_MOVE_DELAY == 1 * 1000
PRESS_EACH == FALSE
DRY_RUN == FALSE
MARGIN == 5

DelayTickMs == 50
WaitTickMs == 200
MinWaitMs == 100

----------------------------------------------------------------------------
(* Helpers *)

Max(a, b) == IF a >= b THEN a ELSE b

Absent == <<>>

Given(v) == <<v>>

\* "a if a is not None else d"
OrDefault(a, d) == IF a = Absent THEN d ELSE a[1]

\* random.randint(lo, hi): any integer of the inclusive range; raises on an
\* empty range
randint(lo, hi) == lo..hi

Count(s, kind) == Cardinality({k \in 1..Len(s) : s[k][1] = kind})

CountAt(s, kind, n) == Cardinality({k \in 1..Len(s) : s[k] = <<kind, n>>})

Ev(kind, n) == <<kind, n>>

----------------------------------------------------------------------------
(* Inputs *)

\* screen sizes pyautogui.size() may report
Screens == {<<2 * MARGIN + 1, 2 * MARGIN + 1>>, <<MARGIN - 1, 2 * MARGIN + 1>>}

MinutesArgs == {Given(0), Given(MaxMinutes)}

JitterArgs == {Absent, Given(0), Given(150)}

MovesArgs == {Given(n) : n \in 0..MaxMoves}

BetweenArgs == {Given(-DelayTickMs), Given(0), Given(MaxDelayTicks * DelayTickMs)}

ArgsSpace ==
    [minutes : MinutesArgs, jitter : JitterArgs,
     min_moves : MovesArgs, max_moves : MovesArgs,
     between : BetweenArgs,
     press_each : BOOLEAN, press_once : BOOLEAN, dry_run : BOOLEAN]

----------------------------------------------------------------------------
(* main(): resolution of the command line against the defaults *)

base_interval == OrDefault(args.minutes, INTERVAL_MIN)

jitter == OrDefault(args.jitter, JITTER)

min_moves == OrDefault(args.min_moves, MOVES_MIN)

max_moves == OrDefault(args.max_moves, MOVES_MAX)

per_move_delay == OrDefault(args.between, PER_MOVE_DELAY)

press_each ==
    IF args.press_each THEN args.press_each
    ELSE (IF args.press_once THEN FALSE ELSE PRESS_EACH)

dry_run == args.dry_run \/ DRY_RUN

\* the checks of main() without the comparison of the two move bounds
Validation_NoOrder ==
    IF base_interval <= 0 THEN "interval"
    ELSE IF ~(0 <= jitter /\ jitter <= 100) THEN "jitter"
    ELSE IF min_moves < 1 THEN "moves"
    ELSE IF per_move_delay < 0 THEN "delay"
    ELSE "ok"

\* the four checks of main(), in order; "ok" when none fires
Validation ==
    IF base_interval <= 0 THEN "interval"
    ELSE IF ~(0 <= jitter /\ jitter <= 100) THEN "jitter"
    ELSE IF min_moves < 1 \/ max_moves < min_moves THEN "moves"
    ELSE IF per_move_delay < 0 THEN "delay"
    ELSE "ok"

----------------------------------------------------------------------------
(* Pure functions *)

\* the upper end taken as exclusive and "corrected" by one
choose_moves_count_OffByOne(lo, hi) ==
    IF lo = hi THEN {lo} ELSE randint(lo, hi + 1)

\* choose_moves_count: the set of values it may return
choose_moves_count(lo, hi) == IF lo = hi THEN {lo} ELSE randint(lo, hi)

\* the draw made around the module default instead of the parameter
JitterDraws_Global(jit) == {-JITTER, 0, JITTER}

\* random.uniform(-jit, jit), sampled at its ends and its middle
JitterDraws(jit) == IF jit > 0 THEN {-jit, 0, jit} ELSE {0}

\* the wait without its floor of 0.1 s
compute_next_wait_seconds_NoFloor(base_min, j) ==
    (base_min * MinuteUnitMs * (100 + j)) \div 100

\* compute_next_wait_seconds for the draw j (in percent), in whole
\* milliseconds
compute_next_wait_seconds(base_min, j) ==
    Max(MinWaitMs, (base_min * MinuteUnitMs * (100 + j)) \div 100)

\* the ranges without the clamp of their upper end
random_position_NoClamp(w, h) ==
    randint(MARGIN, w - MARGIN - 1) \X randint(MARGIN, h - MARGIN - 1)

\* random_position on a screen of size <<w, h>>: the positions it may return
random_position(w, h) ==
    randint(MARGIN, Max(MARGIN, w - MARGIN - 1))
        \X randint(MARGIN, Max(MARGIN, h - MARGIN - 1))

----------------------------------------------------------------------------
(* Loop conditions *)

\* "while True": the outer loop never looks at the flag
LoopCond_Always == TRUE

\* a do-while loop: the flag is looked at only after the first cycle
LoopCond_DoWhile == Count(trace, "Performing") = 0 \/ _running

\* line 96
LoopCond == _running

\* a plain timed wait: the flag is not polled
DelayCond_NoFlag == elapsed < per_move_delay

\* line 125
DelayCond == _running /\ elapsed < per_move_delay

\* line 142
WaitCond == _running /\ elapsed < wait_seconds

----------------------------------------------------------------------------
(* Initial state: the interpreter has loaded the module and main() is about *)
(* to run on some command line                                               *)

Init ==
    /\ args \in ArgsSpace
    /\ pc = "main"
    /\ _running = TRUE
    /\ exit_status = -1
    /\ moves_count = 0
    /\ i = 0
    /\ x = 0
    /\ y = 0
    /\ elapsed = 0
    /\ wait_seconds = 0
    /\ trace = <<>>

----------------------------------------------------------------------------
(* main(), lines 165-207: resolve, validate, then exit(1) or enter run_loop *)

Main ==
    /\ pc = "main"
    /\ IF Validation = "ok"
       THEN /\ trace' = trace \o <<Ev("STARTING", 0)>>
            /\ pc' = "loop"
            /\ exit_status' = exit_status
       ELSE /\ trace' = trace \o <<Ev("ERROR", 0)>>
            /\ pc' = "exited"
            /\ exit_status' = 1
    /\ UNCHANGED <<args, _running, moves_count, i, x, y, elapsed,
                   wait_seconds>>

(* run_loop, lines 96-99: the test of the outer loop, the draw of the      *)
(* action count and the cycle-start log line                               *)
LoopHead ==
    /\ pc = "loop"
    /\ IF LoopCond
       THEN /\ \E n \in choose_moves_count(min_moves, max_moves) :
                 /\ moves_count' = n
                 /\ trace' = <<Ev("Performing", n)>>
                 /\ pc' = IF n > 0 THEN "move" ELSE "settle"
            /\ i' = 0
       ELSE /\ pc' = "finally"
            /\ UNCHANGED <<moves_count, i, trace>>
    /\ UNCHANGED <<args, _running, exit_status, x, y, elapsed, wait_seconds>>

\* the for loop left as soon as the flag is cleared ("if not _running:
\* break" at the head of its body)
Move_StopsOnFlag ==
    /\ pc = "move"
    /\ IF ~_running
       THEN /\ pc' = "settle"
            /\ UNCHANGED <<x, y, trace>>
       ELSE \/ /\ trace' = trace \o <<Ev("size", i + 1)>>
               /\ pc' = "except"
               /\ UNCHANGED <<x, y>>
            \/ \E s \in Screens : \E p \in random_position(s[1], s[2]) :
                 /\ x' = p[1]
                 /\ y' = p[2]
                 /\ pc' = "after_move"
                 /\ IF dry_run
                    THEN trace' = trace \o <<Ev("size", i + 1),
                                             Ev("DRY RUN move", i + 1)>>
                    ELSE \E ok \in BOOLEAN :
                           trace' = trace \o <<Ev("size", i + 1), Ev("moveTo", i + 1),
                                               IF ok THEN Ev("Moved", i + 1)
                                                     ELSE Ev("moveTo failed", i + 1)>>
    /\ UNCHANGED <<args, _running, exit_status, moves_count, i,
                   elapsed, wait_seconds>>

\* the move step without the try/except around moveTo: a failing moveTo
\* reaches the loop boundary
Move_FailAborts ==
    /\ pc = "move"
    /\ \/ /\ trace' = trace \o <<Ev("size", i + 1)>>
          /\ pc' = "except"
          /\ UNCHANGED <<x, y>>
       \/ \E s \in Screens : \E p \in random_position(s[1], s[2]) :
            /\ x' = p[1]
            /\ y' = p[2]
            /\ IF dry_run
               THEN /\ trace' = trace \o <<Ev("size", i + 1), Ev("DRY RUN move", i + 1)>>
                    /\ pc' = "after_move"
               ELSE \E ok \in BOOLEAN :
                      /\ trace' = trace \o <<Ev("size", i + 1), Ev("moveTo", i + 1),
                                             IF ok THEN Ev("Moved", i + 1)
                                                   ELSE Ev("moveTo failed", i + 1)>>
                      /\ pc' = IF ok THEN "after_move" ELSE "except"
    /\ UNCHANGED <<args, _running, exit_status, moves_count, i,
                   elapsed, wait_seconds>>

\* the move step without the dry-run branch: moveTo is called in dry-run too
Move_NoDryCheck ==
    /\ pc = "move"
    /\ \/ /\ trace' = trace \o <<Ev("size", i + 1)>>
          /\ pc' = "except"
          /\ UNCHANGED <<x, y>>
       \/ \E s \in Screens : \E p \in random_position(s[1], s[2]) :
            /\ x' = p[1]
            /\ y' = p[2]
            /\ pc' = "after_move"
            /\ \E ok \in BOOLEAN :
                 trace' = trace \o <<Ev("size", i + 1), Ev("moveTo", i + 1),
                                     IF ok THEN Ev("Moved", i + 1)
                                           ELSE Ev("moveTo failed", i + 1)>>
    /\ UNCHANGED <<args, _running, exit_status, moves_count, i,
                   elapsed, wait_seconds>>

(* run_loop, lines 102-111: one move.  pyautogui.size() may raise, which   *)
(* no handler inside the loop catches; moveTo may raise, which is caught.  *)
Move ==
    /\ pc = "move"
    /\ \/ /\ trace' = trace \o <<Ev("size", i + 1)>>
          /\ pc' = "except"
          /\ UNCHANGED <<x, y>>
       \/ \E s \in Screens : \E p \in random_position(s[1], s[2]) :
            /\ x' = p[1]
            /\ y' = p[2]
            /\ pc' = "after_move"
            /\ IF dry_run
               THEN trace' = trace \o <<Ev("size", i + 1), Ev("DRY RUN move", i + 1)>>
               ELSE \E ok \in BOOLEAN :
                      trace' = trace \o <<Ev("size", i + 1), Ev("moveTo", i + 1),
                                          IF ok THEN Ev("Moved", i + 1)
                                                ELSE Ev("moveTo failed", i + 1)>>
    /\ UNCHANGED <<args, _running, exit_status, moves_count, i,
                   elapsed, wait_seconds>>

(* safe_press, lines 63-67, as the events it appends: the call and, when   *)
(* the call raises, the warning                                            *)
safe_press(ok, n) ==
    IF ok THEN <<Ev("press", n)>>
          ELSE <<Ev("press", n), Ev("Failed to press", n)>>

\* the inter-action delay entered after every move, the last one included
AfterMove_DelayAlways ==
    /\ pc = "after_move"
    /\ IF press_each
       THEN IF dry_run
            THEN trace' = trace \o <<Ev("DRY RUN press after move", i + 1)>>
            ELSE \E ok \in BOOLEAN :
                   trace' = trace \o (IF ok THEN <<Ev("press", i + 1)>>
                                            ELSE <<Ev("press", i + 1),
                                                   Ev("Failed to press", i + 1)>>)
                                  \o <<Ev("Pressed after move", i + 1)>>
       ELSE trace' = trace
    /\ elapsed' = 0
    /\ pc' = "delay"
    /\ UNCHANGED <<args, _running, exit_status, moves_count, i, x, y,
                   wait_seconds>>

\* the per-move press left out of the dry-run path
AfterMove_DrySilent ==
    /\ pc = "after_move"
    /\ IF press_each /\ ~dry_run
       THEN \E ok \in BOOLEAN :
              trace' = trace \o (IF ok THEN <<Ev("press", i + 1)>>
                                       ELSE <<Ev("press", i + 1),
                                              Ev("Failed to press", i + 1)>>)
                             \o <<Ev("Pressed after move", i + 1)>>
       ELSE trace' = trace
    /\ IF i < moves_count - 1
       THEN /\ elapsed' = 0
            /\ pc' = "delay"
       ELSE /\ elapsed' = elapsed
            /\ pc' = "settle"
    /\ UNCHANGED <<args, _running, exit_status, moves_count, i, x, y,
                   wait_seconds>>

(* run_loop, lines 113-124: the per-move press and the entry into the      *)
(* inter-action delay                                                      *)
AfterMove ==
    /\ pc = "after_move"
    /\ IF press_each
       THEN IF dry_run
            THEN trace' = trace \o <<Ev("DRY RUN press after move", i + 1)>>
            ELSE \E ok \in BOOLEAN :
                   trace' = trace \o safe_press(ok, i + 1)
                                  \o <<Ev("Pressed after move", i + 1)>>
       ELSE trace' = trace
    /\ IF i < moves_count - 1
       THEN /\ elapsed' = 0
            /\ pc' = "delay"
       ELSE /\ elapsed' = elapsed
            /\ pc' = "settle"
    /\ UNCHANGED <<args, _running, exit_status, moves_count, i, x, y,
                   wait_seconds>>

(* run_loop, line 125: the test of the inter-action sleep loop; when it    *)
(* fails the for loop goes to its next index                               *)
DelayCheck ==
    /\ pc = "delay"
    /\ IF DelayCond
       THEN /\ pc' = "delay_sleep"
            /\ i' = i
       ELSE /\ pc' = "move"
            /\ i' = i + 1
    /\ UNCHANGED <<args, _running, exit_status, moves_count, x, y,
                   elapsed, wait_seconds, trace>>

(* run_loop, line 126: time.sleep(0.05) returns *)
DelayTick ==
    /\ pc = "delay_sleep"
    /\ elapsed' = elapsed + DelayTickMs
    /\ pc' = "delay"
    /\ UNCHANGED <<args, _running, exit_status, moves_count, i, x, y,
                   wait_seconds, trace>>

\* the press after the sequence made in both press modes
Settle_Always ==
    /\ pc = "settle"
    /\ IF dry_run
       THEN trace' = trace \o <<Ev("DRY RUN press after sequence", 0)>>
       ELSE \E ok \in BOOLEAN :
              trace' = trace \o <<Ev("press", 0)>>
                             \o (IF ok THEN <<>> ELSE <<Ev("Failed to press", 0)>>)
                             \o <<Ev("Pressed after sequence", 0)>>
    /\ pc' = "next_wait"
    /\ UNCHANGED <<args, _running, exit_status, moves_count, i, x, y,
                   elapsed, wait_seconds>>

\* the press after the sequence made only while the flag is set
Settle_IfRunning ==
    /\ pc = "settle"
    /\ IF ~press_each /\ _running
       THEN IF dry_run
            THEN trace' = trace \o <<Ev("DRY RUN press after sequence", 0)>>
            ELSE \E ok \in BOOLEAN :
                   trace' = trace \o <<Ev("press", 0)>>
                                  \o (IF ok THEN <<>> ELSE <<Ev("Failed to press", 0)>>)
                                  \o <<Ev("Pressed after sequence", 0)>>
       ELSE trace' = trace
    /\ pc' = "next_wait"
    /\ UNCHANGED <<args, _running, exit_status, moves_count, i, x, y,
                   elapsed, wait_seconds>>

\* the press after the sequence under the inverted test of the press mode
Settle_Inverted ==
    /\ pc = "settle"
    /\ IF press_each
       THEN IF dry_run
            THEN trace' = trace \o <<Ev("DRY RUN press after sequence", 0)>>
            ELSE \E ok \in BOOLEAN :
                   trace' = trace \o <<Ev("press", 0)>>
                                  \o (IF ok THEN <<>> ELSE <<Ev("Failed to press", 0)>>)
                                  \o <<Ev("Pressed after sequence", 0)>>
       ELSE trace' = trace
    /\ pc' = "next_wait"
    /\ UNCHANGED <<args, _running, exit_status, moves_count, i, x, y,
                   elapsed, wait_seconds>>

\* the press after the sequence without the dry-run branch
Settle_NoDryCheck ==
    /\ pc = "settle"
    /\ IF ~press_each
       THEN \E ok \in BOOLEAN :
              trace' = trace \o <<Ev("press", 0)>>
                             \o (IF ok THEN <<>> ELSE <<Ev("Failed to press", 0)>>)
                             \o <<Ev("Pressed after sequence", 0)>>
       ELSE trace' = trace
    /\ pc' = "next_wait"
    /\ UNCHANGED <<args, _running, exit_status, moves_count, i, x, y,
                   elapsed, wait_seconds>>

(* run_loop, lines 128-133: the press after the sequence *)
Settle ==
    /\ pc = "settle"
    /\ IF ~press_each
       THEN IF dry_run
            THEN trace' = trace \o <<Ev("DRY RUN press after sequence", 0)>>
            ELSE \E ok \in BOOLEAN :
                   trace' = trace \o safe_press(ok, 0)
                                  \o <<Ev("Pressed after sequence", 0)>>
       ELSE trace' = trace
    /\ pc' = "next_wait"
    /\ UNCHANGED <<args, _running, exit_status, moves_count, i, x, y,
                   elapsed, wait_seconds>>

(* run_loop, lines 136-141: the next wait is computed and logged, and the  *)
(* inter-cycle sleep starts                                                *)
NextWait ==
    /\ pc = "next_wait"
    /\ \E j \in JitterDraws(jitter) :
         /\ wait_seconds' = compute_next_wait_seconds(base_interval, j)
         /\ trace' = trace \o <<Ev("Next cycle", wait_seconds')>>
    /\ elapsed' = 0
    /\ pc' = "wait"
    /\ UNCHANGED <<args, _running, exit_status, moves_count, i, x, y>>

(* run_loop, line 142: the test of the inter-cycle sleep loop *)
WaitCheck ==
    /\ pc = "wait"
    /\ pc' = IF WaitCond THEN "wait_sleep" ELSE "loop"
    /\ UNCHANGED <<args, _running, exit_status, moves_count, i, x, y,
                   elapsed, wait_seconds, trace>>

(* run_loop, line 143: time.sleep(0.2) returns *)
WaitTick ==
    /\ pc = "wait_sleep"
    /\ elapsed' = elapsed + WaitTickMs
    /\ pc' = "wait"
    /\ UNCHANGED <<args, _running, exit_status, moves_count, i, x, y,
                   wait_seconds, trace>>

\* a handler placed inside the while loop: the loop goes on after the fault
Except_Resumes ==
    /\ pc = "except"
    /\ trace' = trace \o <<Ev("Unexpected error", 0)>>
    /\ pc' = "loop"
    /\ UNCHANGED <<args, _running, exit_status, moves_count, i, x, y,
                   elapsed, wait_seconds>>

(* run_loop, lines 145-146: the handler at the loop boundary *)
Except ==
    /\ pc = "except"
    /\ trace' = trace \o <<Ev("Unexpected error", 0)>>
    /\ pc' = "finally"
    /\ UNCHANGED <<args, _running, exit_status, moves_count, i, x, y,
                   elapsed, wait_seconds>>

(* run_loop, lines 147-148, and the return of main(): the acknowledgment   *)
(* is logged and the process ends with status 0                            *)
Finally ==
    /\ pc = "finally"
    /\ trace' = trace \o <<Ev("Exited run loop", 0)>>
    /\ pc' = "done"
    /\ exit_status' = 0
    /\ UNCHANGED <<args, _running, moves_count, i, x, y, elapsed,
                   wait_seconds>>

(* _handle_signal, lines 46-49: may run between any two steps of a living  *)
(* process.  The environment delivers one signal at most.                  *)
HandleSignal ==
    /\ pc \notin {"done", "exited"}
    /\ _running
    /\ _running' = FALSE
    /\ trace' = trace \o <<Ev("Received signal", 0)>>
    /\ UNCHANGED <<args, pc, exit_status, moves_count, i, x, y,
                   elapsed, wait_seconds>>

----------------------------------------------------------------------------

\* the steps of the program itself
Step ==
    \/ Main
    \/ LoopHead
    \/ Move
    \/ AfterMove
    \/ DelayCheck
    \/ DelayTick
    \/ Settle
    \/ NextWait
    \/ WaitCheck
    \/ WaitTick
    \/ Except
    \/ Finally

Next == Step \/ HandleSignal

Spec == Init /\ [][Next]_vars

\* every call and every sleep tick returns: the thread keeps taking steps
FairSpec == Spec /\ WF_vars(Step)

----------------------------------------------------------------------------
(* The functions of lines 56-79 called on their own, on inputs that main()  *)
(* lets through: pc is "fn" before the call and names the outcome after it. *)
(* The trace records what the call asked of its collaborators: the random   *)
(* draw of choose_moves_count, the screen size given to random_position.    *)

FnMoveBounds == {b \in (1..MaxCount) \X (1..MaxCount) : b[1] <= b[2]}

FnJitters == {0, 20, 50, 100}

FnArgsSpace ==
    {[minutes |-> Given(m), jitter |-> Given(jt),
      min_moves |-> Given(b[1]), max_moves |-> Given(b[2]),
      between |-> Given(0),
      press_each |-> FALSE, press_once |-> FALSE, dry_run |-> FALSE] :
        m \in 1..MaxBase, jt \in FnJitters, b \in FnMoveBounds}

FnScreens == (0..MaxScreen) \X (0..MaxScreen)

FnInit ==
    /\ args \in FnArgsSpace
    /\ pc = "fn"
    /\ _running = TRUE
    /\ exit_status = -1
    /\ moves_count = 0
    /\ i = 0
    /\ x = 0
    /\ y = 0
    /\ elapsed = 0
    /\ wait_seconds = 0
    /\ trace = <<>>

\* the random draws choose_moves_count makes to return n (lines 71-73)
ChooseDraws(lo, hi, n) == IF lo = hi THEN <<>> ELSE <<Ev("randint", n)>>

\* choose_moves_count(min_moves, max_moves), lines 70-73
CallChooseMovesCount ==
    /\ pc = "fn"
    /\ IF choose_moves_count(min_moves, max_moves) = {}
       THEN /\ pc' = "choose_raised"
            /\ UNCHANGED <<moves_count, trace>>
       ELSE \E n \in choose_moves_count(min_moves, max_moves) :
              /\ moves_count' = n
              /\ trace' = ChooseDraws(min_moves, max_moves, n)
              /\ pc' = "chosen"
    /\ UNCHANGED <<args, _running, exit_status, i, x, y, elapsed, wait_seconds>>

\* compute_next_wait_seconds(base_interval, jitter), lines 76-79
CallComputeNextWait ==
    /\ pc = "fn"
    /\ \E j \in JitterDraws(jitter) :
         /\ wait_seconds' = compute_next_wait_seconds(base_interval, j)
         /\ trace' = <<Ev("uniform", j)>>
    /\ pc' = "waited"
    /\ UNCHANGED <<args, _running, exit_status, moves_count, i, x, y, elapsed>>

\* random_position(), lines 56-60, on the screen size pyautogui.size()
\* gives; random.randint raises on an empty range
CallRandomPosition ==
    /\ pc = "fn"
    /\ \E s \in FnScreens :
         /\ trace' = <<Ev("width", s[1]), Ev("height", s[2])>>
         /\ IF random_position(s[1], s[2]) = {}
            THEN /\ pc' = "position_raised"
                 /\ UNCHANGED <<x, y>>
            ELSE \E p \in random_position(s[1], s[2]) :
                   /\ x' = p[1]
                   /\ y' = p[2]
                   /\ pc' = "positioned"
    /\ UNCHANGED <<args, _running, exit_status, moves_count, i, elapsed,
                   wait_seconds>>

FnNext ==
    \/ CallChooseMovesCount
    \/ CallComputeNextWait
    \/ CallRandomPosition

FnSpec == FnInit /\ [][FnNext]_vars

----------------------------------------------------------------------------
(* Type invariant *)

TypeOK ==
    /\ args \in ArgsSpace
    /\ pc \in {"main", "exited", "loop", "move", "after_move", "delay",
               "delay_sleep", "settle", "next_wait", "wait", "wait_sleep",
               "except", "finally", "done"}
    /\ _running \in BOOLEAN
    /\ exit_status \in {-1, 0, 1}
    /\ moves_count \in 0..MaxMoves
    /\ i \in 0..MaxMoves

----------------------------------------------------------------------------
(* Vocabulary of the properties *)

InRunLoop ==
    pc \in {"loop", "move", "after_move", "delay", "delay_sleep", "settle",
            "next_wait", "wait", "wait_sleep", "except", "finally"}

Last(s) == s[Len(s)]

\* a cycle has been started
CycleBegun == Count(trace, "Performing") = 1

\* the fault of a screen-size query has reached the loop boundary
Faulted == pc = "except" \/ Count(trace, "Unexpected error") = 1

InActionPhase == pc \in {"move", "after_move", "delay", "delay_sleep"}

\* number of iterations of the for loop whose move step is over
MovesDone ==
    IF Faulted \/ pc = "move" THEN i
    ELSE IF InActionPhase THEN i + 1
    ELSE moves_count

\* number of iterations of the for loop whose press step is over
PressStepsDone ==
    IF Faulted \/ pc \in {"move", "after_move"} THEN i
    ELSE IF InActionPhase THEN i + 1
    ELSE moves_count

\* the step of lines 128-133 of the current cycle is over
SettleDone ==
    CycleBegun /\ ~Faulted /\ ~InActionPhase /\ pc # "settle"

Indicator(b) == IF b THEN 1 ELSE 0

\* the constraints on the configuration, each stated on its own
ConfigValid ==
    /\ base_interval > 0
    /\ 0 <= jitter
    /\ jitter <= 100
    /\ min_moves >= 1
    /\ max_moves >= min_moves
    /\ per_move_delay >= 0

\* number of warnings of failed actuator calls in the trace s
Warnings(s) == Count(s, "moveTo failed") + Count(s, "Failed to press")

\* the k-th event is a screen-size query that no move followed: it failed
FaultAt(k) ==
    /\ trace[k][1] = "size"
    /\ (k = Len(trace) \/ trace[k + 1][1] \notin {"moveTo", "DRY RUN move"})

\* positions in the trace of the events of the given kinds
Positions(kinds) == {k \in 1..Len(trace) : trace[k][1] \in kinds}

----------------------------------------------------------------------------
(* C1: under FairSpec, whenever the flag is cleared while run_loop is       *)
(* anywhere between its entry and its return, run_loop eventually returns   *)
(* and the acknowledgment "Exited run loop" has been logged exactly once.   *)
ShutdownTerminates ==
    (~_running /\ InRunLoop)
        ~> (pc = "done" /\ Count(trace, "Exited run loop") = 1)

\* the flag was cleared during a cycle and run_loop has returned
ShutdownTerminatesWitness ==
    /\ pc = "done"
    /\ ~_running
    /\ Count(trace, "Performing") = 1
    /\ Count(trace, "Received signal") = 1
    /\ Count(trace, "Exited run loop") = 1

(* C2: once the flag is cleared no sleep tick is started any more, in the   *)
(* inter-action delay or in the inter-cycle wait: the tick under way        *)
(* returns to the loop test, and the loop test leaves the sleep, whatever   *)
(* delay remains.                                                           *)
SleepEndsWithinOneTick ==
    [][~_running =>
         /\ pc' \notin {"delay_sleep", "wait_sleep"}
         /\ (pc = "delay" => pc' = "move")
         /\ (pc = "wait" => pc' = "loop")]_vars

\* the flag is cleared during a tick of a delay that has more than one tick
\* left to sleep
SleepEndsWithinOneTickWitness ==
    /\ pc = "delay_sleep"
    /\ ~_running
    /\ Last(trace) = Ev("Received signal", 0)
    /\ elapsed + DelayTickMs < per_move_delay

DryRunIssuesNothing ==
    dry_run =>
      /\ Count(trace, "moveTo") = 0
      /\ Count(trace, "press") = 0
      /\ \A k \in 1..MaxMoves :
           /\ CountAt(trace, "DRY RUN move", k) = Indicator(k <= MovesDone)
           /\ CountAt(trace, "DRY RUN press after move", k)
                = Indicator(press_each /\ k <= PressStepsDone)
      /\ Count(trace, "DRY RUN move") = MovesDone
      /\ Count(trace, "DRY RUN press after sequence")
           = Indicator(~press_each /\ SettleDone)

\* a dry-run cycle of two moves in press-each mode, interrupted by a signal,
\* has reached its wait
DryRunIssuesNothingWitness ==
    /\ dry_run
    /\ press_each
    /\ pc = "wait"
    /\ moves_count = 2
    /\ Count(trace, "DRY RUN move") = 2
    /\ Count(trace, "DRY RUN press after move") = 2
    /\ Count(trace, "Received signal") = 1

(* C5 as stated: in dry-run none of screenSize, moveTo, pressKey is ever    *)
(* called.                                                                  *)
DryRunNeverCallsActuator ==
    dry_run =>
      /\ Count(trace, "size") = 0
      /\ Count(trace, "moveTo") = 0
      /\ Count(trace, "press") = 0

(* C5 as amended: in dry-run moveTo and pressKey are never called, while    *)
(* the screen size is queried once at the start of every would-be move:     *)
(* once per logged would-be move, and once more for a query that failed.    *)
DryRunOnlyQueriesScreen ==
    dry_run =>
      /\ Count(trace, "moveTo") = 0
      /\ Count(trace, "press") = 0
      /\ Count(trace, "size") = Count(trace, "DRY RUN move") + Indicator(Faulted)

\* a dry-run cycle has queried the screen size for each of its two moves
DryRunOnlyQueriesScreenWitness ==
    /\ dry_run
    /\ pc = "settle"
    /\ Count(trace, "size") = 2
    /\ Count(trace, "DRY RUN move") = 2

(* C6: once main() is past its validation, a configuration that breaks one *)
(* of the five constraints has ended the process with status 1 after one    *)
(* error line, with no cycle, screen-size query, move or press; a           *)
(* configuration that satisfies them all has entered run_loop.              *)
ValidationIsFatal ==
    pc # "main" =>
      IF ConfigValid
      THEN /\ pc # "exited"
           /\ exit_status # 1
           /\ Count(trace, "ERROR") = 0
      ELSE /\ pc = "exited"
           /\ exit_status = 1
           /\ Count(trace, "ERROR") = 1
           /\ Count(trace, "STARTING") = 0
           /\ Count(trace, "Performing") = 0
           /\ Count(trace, "size") = 0
           /\ Count(trace, "moveTo") = 0
           /\ Count(trace, "press") = 0

\* the process has exited on a configuration whose only fault is
\* max_moves < min_moves
ValidationIsFatalWitness ==
    /\ pc = "exited"
    /\ exit_status = 1
    /\ max_moves < min_moves
    /\ max_moves >= 1
    /\ base_interval > 0
    /\ 0 <= jitter
    /\ jitter <= 100
    /\ per_move_delay >= 0

(* C7: outside dry-run every move step done has made exactly one moveTo     *)
(* call with exactly one outcome line, every press step done exactly one    *)
(* press call (one per move in press-each mode, one after the sequence      *)
(* otherwise), whichever calls failed; and a step that logs a failure       *)
(* warning goes on to the next step of the cycle, never to the loop         *)
(* boundary.                                                                *)
ActuatorFailuresNonFatal ==
    /\ [](~dry_run =>
           /\ \A k \in 1..MaxMoves :
                /\ CountAt(trace, "moveTo", k) = Indicator(k <= MovesDone)
                /\ CountAt(trace, "Moved", k) + CountAt(trace, "moveTo failed", k)
                     = CountAt(trace, "moveTo", k)
                /\ CountAt(trace, "press", k)
                     = Indicator(press_each /\ k <= PressStepsDone)
                /\ CountAt(trace, "Failed to press", k) <= CountAt(trace, "press", k)
           /\ CountAt(trace, "press", 0) = Indicator(~press_each /\ SettleDone)
           /\ CountAt(trace, "Failed to press", 0) <= CountAt(trace, "press", 0))
    /\ [][Warnings(trace') > Warnings(trace) =>
             pc' \in {"after_move", "delay", "settle", "next_wait"}]_vars

\* a cycle of two moves in press-once mode has finished its action phase and
\* its press although both moveTo calls and the press call failed
ActuatorFailuresNonFatalWitness ==
    /\ ~dry_run
    /\ _running
    /\ pc = "next_wait"
    /\ moves_count = 2
    /\ Count(trace, "moveTo") = 2
    /\ Count(trace, "moveTo failed") = 2
    /\ Count(trace, "press") = 1
    /\ Count(trace, "Failed to press") = 1

(* C8: after a screen-size query has failed, the program is at the loop     *)
(* boundary or beyond and never back in the loop; nothing but the error     *)
(* line, the acknowledgment and the signal line follows the failed query;   *)
(* the error is logged once, the acknowledgment once, and run_loop returns  *)
(* with status 0.                                                           *)
FaultCaughtAtBoundary ==
    \A k \in 1..Len(trace) :
      FaultAt(k) =>
        /\ pc \in {"except", "finally", "done"}
        /\ \A m \in (k + 1)..Len(trace) :
             trace[m][1] \in {"Received signal", "Unexpected error", "Exited run loop"}
        /\ Count(trace, "Unexpected error") = Indicator(pc # "except")
        /\ Count(trace, "Exited run loop") = Indicator(pc = "done")
        /\ exit_status = IF pc = "done" THEN 0 ELSE -1

\* run_loop has returned, the flag still set, after the screen-size query of
\* the second move of a cycle failed
FaultCaughtAtBoundaryWitness ==
    /\ pc = "done"
    /\ _running
    /\ exit_status = 0
    /\ Count(trace, "moveTo") = 1
    /\ Len(trace) >= 2
    /\ FaultAt(Len(trace) - 2)

(* C9 as stated: in run_loop the press-each mode is in force exactly when   *)
(* --press-each was given without --press-once.                             *)
PressOnceTakesPrecedence ==
    pc \notin {"main", "exited"} =>
      (press_each <=> (args.press_each /\ ~args.press_once))

(* C10: in press-once mode the cycle has at most one press (a call, or its  *)
(* dry-run log line); it has exactly one once the step after the action     *)
(* phase is over; the press comes after all moves_count moves of the cycle  *)
(* and before the next wait is logged.                                      *)
PressOnceAfterAllMoves ==
    ~press_each =>
      LET P == Positions({"press", "DRY RUN press after sequence"})
          M == Positions({"moveTo", "DRY RUN move"})
          W == Positions({"Next cycle"})
      IN  /\ Cardinality(P) = Indicator(SettleDone)
          /\ \A q \in P :
               /\ Cardinality(M) = moves_count
               /\ \A m \in M : m < q
          /\ \A w \in W :
               /\ Cardinality(P) = 1
               /\ \A q \in P : q < w

\* a dry-run, press-once cycle with min = max = 2 has logged two moves, then
\* one press, and is in its wait
PressOnceAfterAllMovesWitness ==
    /\ ~press_each
    /\ dry_run
    /\ min_moves = 2
    /\ max_moves = 2
    /\ pc = "wait"
    /\ Count(trace, "DRY RUN move") = 2
    /\ Count(trace, "DRY RUN press after sequence") = 1
    /\ Count(trace, "Next cycle") = 1

----------------------------------------------------------------------------
(* Properties of the functions called on their own (FnSpec) *)

\* the wait of base interval b (in units of args.minutes) under the draw j
SecondsOf(b, j) == (b * MinuteUnitMs * (100 + j)) \div 100

(* C11: for a valid base interval and jitter, compute_next_wait_seconds     *)
(* returns at least 0.1 s; the value is max(0.1, base*60*(1+j)) for the     *)
(* draw j, which lies within -jitter..jitter, and so it is never above      *)
(* max(0.1, base*60*(1+jitter)).                                            *)
WaitFlooredAndBounded ==
    pc = "waited" =>
      LET j == trace[1][2]
      IN  /\ wait_seconds >= MinWaitMs
          /\ -jitter <= j
          /\ j <= jitter
          /\ wait_seconds = Max(MinWaitMs, SecondsOf(base_interval, j))
          /\ wait_seconds <= Max(MinWaitMs, SecondsOf(base_interval, jitter))

\* the floor applies to the longest base interval under the draw -100 %
WaitFlooredAndBoundedWitness ==
    /\ pc = "waited"
    /\ base_interval = MaxBase
    /\ jitter = 100
    /\ trace[1][2] = -100
    /\ wait_seconds = MinWaitMs

(* C12 as stated: with jitter 0 the function returns exactly base*60       *)
(* seconds for every base interval > 0.                                     *)
ZeroJitterExactBase ==
    (pc = "waited" /\ jitter = 0) =>
      wait_seconds = base_interval * MinuteUnitMs

(* C12 as amended: with jitter 0 no draw is made away from 0 and the        *)
(* function returns max(0.1, base*60) seconds: exactly base*60 when that    *)
(* is at least 0.1 s, and 0.1 s below.                                      *)
ZeroJitterFlooredBase ==
    (pc = "waited" /\ jitter = 0) =>
      /\ trace = <<Ev("uniform", 0)>>
      /\ wait_seconds = Max(MinWaitMs, base_interval * MinuteUnitMs)
      /\ (base_interval * MinuteUnitMs >= MinWaitMs =>
            wait_seconds = base_interval * MinuteUnitMs)
      /\ (base_interval * MinuteUnitMs < MinWaitMs => wait_seconds = MinWaitMs)

\* jitter 0 and a base interval of 0.05 s: the function has returned 0.1 s
ZeroJitterFlooredBaseWitness ==
    /\ pc = "waited"
    /\ jitter = 0
    /\ base_interval * MinuteUnitMs < MinWaitMs
    /\ wait_seconds = MinWaitMs

(* C13: for 1 <= min <= max, choose_moves_count does not raise and returns  *)
(* n with min <= n <= max, hence n >= 1; when min = max it returns that     *)
(* value and makes no random draw.                                          *)
ChooseWithinBounds ==
    /\ pc # "choose_raised"
    /\ pc = "chosen" =>
         /\ min_moves <= moves_count
         /\ moves_count <= max_moves
         /\ moves_count >= 1
         /\ (min_moves = max_moves =>
               /\ moves_count = min_moves
               /\ Count(trace, "randint") = 0)

\* the draw has returned the upper bound of the widest range
ChooseWithinBoundsWitness ==
    /\ pc = "chosen"
    /\ min_moves = 1
    /\ max_moves = MaxCount
    /\ moves_count = max_moves
    /\ Count(trace, "randint") = 1

\* the coordinate c is right for the dimension d of the screen
CoordinateOK(c, d) ==
    /\ MARGIN <= c
    /\ c <= Max(MARGIN, d - MARGIN - 1)
    /\ (d >= 2 * MARGIN + 1 => c <= d - MARGIN - 1)
    /\ (d < 2 * MARGIN + 1 => c = MARGIN)

(* C14: for every screen size w, h >= 0, random_position does not raise on  *)
(* a reversed range, and each coordinate lies in                            *)
(* [margin, max(margin, d - margin - 1)]: within [margin, d - margin - 1]   *)
(* when d >= 2*margin + 1, equal to margin otherwise.                       *)
PositionWithinClampedRange ==
    /\ pc # "position_raised"
    /\ pc = "positioned" =>
         /\ CoordinateOK(x, trace[1][2])
         /\ CoordinateOK(y, trace[2][2])

\* on a screen wide enough and too low, x is at the upper end of its range
\* and y at the margin
PositionWithinClampedRangeWitness ==
    /\ pc = "positioned"
    /\ trace[1] = Ev("width", 2 * MARGIN + 3)
    /\ trace[2] = Ev("height", MARGIN)
    /\ x = MARGIN + 2
    /\ y = MARGIN

----------------------------------------------------------------------------
(* Properties of the cycle (Spec), continued *)

\* the log lines of a cycle that the two modes have in common
CycleLine(e) ==
    e[1] \in {"Performing", "DRY RUN move", "Moved",
              "DRY RUN press after move", "Pressed after move",
              "DRY RUN press after sequence", "Pressed after sequence",
              "Next cycle"}

\* a log line under the name it has whatever the mode
Neutral(e) ==
    IF e[1] \in {"DRY RUN move", "Moved"} THEN Ev("move", e[2])
    ELSE IF e[1] \in {"DRY RUN press after move", "Pressed after move"}
         THEN Ev("press after move", e[2])
    ELSE IF e[1] \in {"DRY RUN press after sequence", "Pressed after sequence"}
         THEN Ev("press after sequence", e[2])
    ELSE e

\* the cycle's log lines in order, under their mode-neutral names
CycleLog(s) ==
    LET lines == SelectSeq(s, CycleLine)
    IN  [k \in 1..Len(lines) |-> Neutral(lines[k])]

\* the next wait of the current cycle has been logged
WaitLogged ==
    CycleBegun /\ ~Faulted /\ ~InActionPhase /\ pc \notin {"settle", "next_wait"}

RECURSIVE MovesLog(_)
\* the lines of the first k iterations of the for loop, from the position of
\* the program and the press mode alone
MovesLog(k) ==
    IF k = 0 THEN <<>>
    ELSE MovesLog(k - 1)
           \o <<Ev("move", k)>>
           \o (IF press_each /\ k <= PressStepsDone
               THEN <<Ev("press after move", k)>> ELSE <<>>)

\* the log of the cycle as the position of the program, the action count,
\* the press mode and the computed wait determine it; the mode is not read
ExpectedCycleLog ==
    IF ~CycleBegun THEN <<>>
    ELSE <<Ev("Performing", moves_count)>>
           \o MovesLog(MovesDone)
           \o (IF ~press_each /\ SettleDone
               THEN <<Ev("press after sequence", 0)>> ELSE <<>>)
           \o (IF WaitLogged THEN <<Ev("Next cycle", wait_seconds)>> ELSE <<>>)

(* C15: as long as no actuator call has failed, the log lines of the cycle  *)
(* (cycle start, move #k, press after move #k, press after sequence, next   *)
(* wait), taken under mode-neutral names, are in both modes the sequence    *)
(* that the position of the program, the action count, the press mode and   *)
(* the computed wait determine: a dry-run and a real execution that make    *)
(* the same draws and get the signal at the same point log line for line    *)
(* the same.                                                                *)
DryRunMirrorsRealPath ==
    Warnings(trace) = 0 => CycleLog(trace) = ExpectedCycleLog

\* a real press-each cycle of two moves without failure is in its wait,
\* with six log lines
DryRunMirrorsRealPathWitness ==
    /\ ~dry_run
    /\ press_each
    /\ pc = "wait"
    /\ moves_count = 2
    /\ Warnings(trace) = 0
    /\ Count(trace, "press") = 2
    /\ Len(CycleLog(trace)) = 6

\* events of the for loop of a cycle: the steps of its moves and of their
\* presses
ActionKinds ==
    {"size", "moveTo", "Moved", "moveTo failed", "DRY RUN move",
     "DRY RUN press after move", "Pressed after move"}

\* events of the steps that follow the for loop: the press after the
\* sequence and the next wait
LaterStepKinds ==
    {"DRY RUN press after sequence", "Pressed after sequence", "Next cycle"}

\* the signal logged at position s came while the for loop still had a step
\* to make
SignalInActionPhase(s) ==
    /\ trace[s][1] = "Received signal"
    /\ \E a \in Positions(ActionKinds) : s < a

\* the cycle has reached the test of the outer loop, or gone past it,
\* without a fault
CycleOver == CycleBegun /\ ~Faulted /\ pc \in {"loop", "finally", "done"}

IsPrefix(s, t) == Len(s) <= Len(t) /\ \A k \in 1..Len(s) : s[k] = t[k]

(* C16 as stated: when the flag is cleared during the action phase of a     *)
(* cycle, no later step of the cycle is begun: no press after the sequence  *)
(* and no next wait is logged after the signal.                             *)
ShutdownSkipsLaterSteps ==
    \A s \in 1..Len(trace) :
      SignalInActionPhase(s) =>
        \A q \in Positions(LaterStepKinds) : q < s

(* C16 as amended: when the flag is cleared during the action phase, the    *)
(* later steps of the cycle are still made, after the signal: the press     *)
(* after the sequence in press-once mode and the computation and logging    *)
(* of the next wait; from the signal on no sleep tick is started, and the   *)
(* next test of the outer loop leaves the loop.                             *)
ShutdownFinishesCycle ==
    /\ [](\A s \in 1..Len(trace) :
            (SignalInActionPhase(s) /\ CycleOver) =>
              /\ \E w \in Positions({"Next cycle"}) : s < w
              /\ (~press_each =>
                    \E q \in Positions({"DRY RUN press after sequence",
                                         "Pressed after sequence"}) : s < q))
    /\ [][~_running =>
             /\ pc' \notin {"delay_sleep", "wait_sleep"}
             /\ (pc = "settle" => pc' = "next_wait")
             /\ (pc = "next_wait" => pc' = "wait")
             /\ (pc = "loop" => pc' = "finally")]_vars

\* a press-once cycle got the signal before its second move and has ended
\* with its press and its next wait
ShutdownFinishesCycleWitness ==
    /\ pc = "done"
    /\ ~press_each
    /\ ~dry_run
    /\ ~Faulted
    /\ moves_count = 2
    /\ \E s \in 1..Len(trace) :
         /\ SignalInActionPhase(s)
         /\ \E m \in Positions({"moveTo"}) : s < m
         /\ \E q \in Positions({"Pressed after sequence"}) : s < q
         /\ \E w \in Positions({"Next cycle"}) : s < w

\* number of moves of the cycle begun before position s of the trace
MovesBefore(s) ==
    Cardinality({m \in Positions({"moveTo", "DRY RUN move"}) : m < s})

(* C17: once the flag is cleared, the trace only grows (nothing issued is   *)
(* undone) and an inter-action delay goes to the next move without a tick;  *)
(* and when the action phase of a cycle that got the signal is over         *)
(* without a fault, every one of its moves_count moves has been issued      *)
(* once, with one press each in press-each mode.                            *)
ShutdownKeepsRemainingMoves ==
    /\ []((~_running /\ CycleBegun /\ ~Faulted /\ ~InActionPhase) =>
            \A k \in 1..moves_count :
              /\ CountAt(trace, "moveTo", k) + CountAt(trace, "DRY RUN move", k) = 1
              /\ CountAt(trace, "press", k)
                   + CountAt(trace, "DRY RUN press after move", k)
                   = Indicator(press_each))
    /\ [][~_running =>
             /\ IsPrefix(trace, trace')
             /\ (pc = "delay" => (pc' = "move" /\ i' = i + 1 /\ elapsed' = elapsed))
             /\ (pc = "move" => pc' \in {"after_move", "except"})
             /\ (pc = "after_move" /\ i < moves_count - 1 => pc' = "delay")]_vars

\* a press-each cycle of two moves got the signal after one move and has
\* made its second move and its second press
ShutdownKeepsRemainingMovesWitness ==
    /\ ~_running
    /\ press_each
    /\ ~dry_run
    /\ pc = "settle"
    /\ moves_count = 2
    /\ \E s \in 1..Len(trace) :
         /\ trace[s][1] = "Received signal"
         /\ MovesBefore(s) = 1
    /\ Count(trace, "moveTo") = 2
    /\ Count(trace, "press") = 2

\* positions in the trace of the events of the given kinds with index n
PositionsAt(kinds, n) == {k \in Positions(kinds) : trace[k][2] = n}

\* a press made, or logged in its place, after a move
PerMovePressKinds == {"press", "DRY RUN press after move"}

(* C18: in press-each mode each move whose press step is over has exactly   *)
(* one press (the call, or in dry-run its log line), placed after the move  *)
(* and before the next move; during the delay after move k the press of     *)
(* move k is already there; a cycle that has gone through its moves_count   *)
(* moves has moves_count presses; no press after the sequence is made.      *)
PressEachOnePressPerMove ==
    press_each =>
      /\ \A k \in 1..MaxMoves :
           /\ Cardinality(PositionsAt(PerMovePressKinds, k))
                = Indicator(k <= PressStepsDone)
           /\ \A p \in PositionsAt(PerMovePressKinds, k) :
                /\ \E m \in PositionsAt({"moveTo", "DRY RUN move"}, k) : m < p
                /\ \A m \in PositionsAt({"size"}, k + 1) : p < m
      /\ (pc \in {"delay", "delay_sleep"} =>
            Cardinality(PositionsAt(PerMovePressKinds, i + 1)) = 1)
      /\ ((CycleBegun /\ ~Faulted /\ ~InActionPhase) =>
            Cardinality(Positions(PerMovePressKinds)) = moves_count)
      /\ PositionsAt({"press"}, 0) = {}
      /\ Positions({"DRY RUN press after sequence", "Pressed after sequence"}) = {}

\* a press-each cycle of two moves has ended its steps with two presses,
\* after a delay that slept
PressEachOnePressPerMoveWitness ==
    /\ press_each
    /\ ~dry_run
    /\ pc = "wait"
    /\ moves_count = 2
    /\ per_move_delay > 0
    /\ _running
    /\ Count(trace, "moveTo") = 2
    /\ Count(trace, "press") = 2

(* C19: the inter-action delay is entered from the step that follows a      *)
(* move, exactly when that move is not the last of the cycle (so moves_count - 1 *)
(* times, and never when moves_count = 1), and left for the next move; a sleep   *)
(* tick of the delay is started only when per_move_delay > 0.               *)
DelayOnlyBetweenMoves ==
    [][pc' # pc =>
         /\ (pc = "after_move" =>
               pc' = IF i + 1 < moves_count THEN "delay" ELSE "settle")
         /\ (pc' = "delay" =>
               \/ pc = "delay_sleep"
               \/ pc = "after_move" /\ elapsed' = 0 /\ i + 1 < moves_count)
         /\ (pc = "delay" /\ pc' # "delay_sleep" =>
               pc' = "move" /\ i' = i + 1 /\ i' < moves_count)
         /\ (pc' = "delay_sleep" => per_move_delay > 0)
         /\ (pc' = "settle" => i + 1 = moves_count)]_vars

\* a cycle of two moves with per_move_delay = 0 is at its second move: the
\* delay between the two was passed without a tick
DelayOnlyBetweenMovesWitness ==
    /\ pc = "move"
    /\ i = 1
    /\ moves_count = 2
    /\ per_move_delay = 0
    /\ _running
    /\ elapsed = 0
    /\ Count(trace, "size") = 1

(* C20 as stated: every press call has exactly one logged outcome, the      *)
(* warning when the call failed and the "Pressed" line when it succeeded.   *)
PressHasOneOutcome ==
    \A n \in 0..MaxMoves :
      LET pressed == IF n = 0 THEN "Pressed after sequence"
                              ELSE "Pressed after move"
      IN  /\ CountAt(trace, "Failed to press", n) + CountAt(trace, pressed, n)
               = CountAt(trace, "press", n)
          /\ \A k \in PositionsAt({"Failed to press"}, n) :
               k = Len(trace) \/ trace[k + 1] # Ev(pressed, n)

====
